---- MODULE Spec2Model ----
(***************************************************************************)
(* The message-sharing application: the messages table, the reflections    *)
(* ledger, the pg connection pool the handlers talk through, and the       *)
(* POST /reflect/:messageId and POST /share handlers, one step per awaited *)
(* pool.query.                                                             *)
(*                                                                         *)
(* Every statement of a handler goes through pool.query, which checks a    *)
(* client out of the pool for that one statement and releases it when the  *)
(* statement has run.  BEGIN / COMMIT / ROLLBACK therefore act on the      *)
(* transaction of whichever client the pool hands out.  The pool is        *)
(* modelled as pg-pool works: idle clients are reused last-in first-out,   *)
(* a request waits in a first-in first-out queue when every client is      *)
(* busy, a client whose statement failed is destroyed (the server rolls    *)
(* its transaction back), and an idle client is closed after the idle      *)
(* timeout.  The database is PostgreSQL at READ COMMITTED.                 *)
(***************************************************************************)
EXTENDS Integers, Sequences, FiniteSets, TLC

(* ------------------------------------------------------------------ *)
(* Bounds                                                             *)
(* ------------------------------------------------------------------ *)

\* Clients the pool may hold.  pg's default is 10; the model scales the pool
\* down and runs one request more than the pool has clients, the smallest
\* load under which a request waits for a client.
PoolMax == 1

\* Requests started in one behaviour.
MaxRequests == 3

\* Statements that fail for a reason outside the application (connection
\* loss, server error) in one behaviour.
MaxFailures == 1

\* Distinct voter identities (client addresses).
NumVoters == 2

\* Messages submitted through POST /share in one behaviour.
MaxShares == 1

\* Reflect buttons on the page, and clicks on one button in one behaviour.
NumButtons == 2
MaxClicks == 3

\* Server instances on one database, and starts of one instance in one
\* behaviour.
NumInstances == 2
MaxStarts == 2

Conns == 1..PoolMax
Slots == 1..(PoolMax + 1)
Voters == 1..NumVoters
Buttons == 1..NumButtons
Instances == 1..NumInstances

(* ------------------------------------------------------------------ *)
(* Program constants                                                  *)
(* ------------------------------------------------------------------ *)

\* reflection_count of the five seed messages, in insertion order.
SeedCounts == <<7, 12, 9, 5, 15>>

\* Texts of the five seed messages (non-empty, trimmed and distinct; each is
\* abbreviated to one letter).
SeedTexts == << <<"t">>, <<"g">>, <<"i">>, <<"f">>, <<"w">> >>

DefaultCategory == "Honest Message"
DefaultAuthor == "Anonymous"

\* The two shapes of the POST /reflect handler among the server variants:
\* the existence check before BEGIN, or BEGIN before the existence check.
Variants == {"check_first", "begin_first"}

\* Message ids a request may name: no message has id 0, message 1 is seeded,
\* and the id after the seeds is the first submitted message.
PathIds == {0, 1, Len(SeedCounts) + 1}

\* An absent form field.
Absent == <<"absent">>

\* Values of the message field of a POST /share body.
Bodies == {Absent, <<>>, <<" ">>, <<"a">>, <<" ", "a", " ">>}

VARIABLES
  variant,      \* which server variant runs
  messages,     \* messages table: id -> row
  reflections,  \* reflections ledger: set of rows
  reflSeq,      \* next value of the reflections id sequence
  msgSeq,       \* next value of the messages id sequence
  pool,         \* the connection pool and its clients' sessions
  req,          \* the request each slot serves and where its handler stands
  incs,         \* history: the counter increments made, by request
  last,         \* history: the request answered last
  nreq,         \* requests started
  nfail,        \* statements failed from outside
  nshare,       \* messages submitted
  button,       \* the reflect buttons of a page in a browser
  boot          \* the server instances and where their start-up stands

vars == <<variant, messages, reflections, reflSeq, msgSeq, pool, req, incs,
          last, nreq, nfail, nshare, button, boot>>

(* ------------------------------------------------------------------ *)
(* Database: rows carry the session that wrote them while uncommitted *)
(* ------------------------------------------------------------------ *)

\* A row written by session owner is visible to session c when committed
\* (owner 0) or written by c's own open transaction.
Visible(owner, c) == owner = 0 \/ owner = c

\* The tables as one value.
Data == [messages |-> messages, reflections |-> reflections, incs |-> incs]

\* RolledBack emptying the ledger.
RolledBackLedger(D, c) ==
  [messages |->
     [m \in {x \in DOMAIN D.messages : D.messages[x].owner # c} |->
        IF D.messages[m].locker = c
          THEN [D.messages[m] EXCEPT !.delta = 0, !.locker = 0]
          ELSE D.messages[m]],
   reflections |-> {},
   incs |-> {i \in D.incs : i.owner # c}]

\* The server ends session c's transaction by rollback.
RolledBack(D, c) ==
  [messages |->
     [m \in {x \in DOMAIN D.messages : D.messages[x].owner # c} |->
        IF D.messages[m].locker = c
          THEN [D.messages[m] EXCEPT !.delta = 0, !.locker = 0]
          ELSE D.messages[m]],
   reflections |-> {r \in D.reflections : r.owner # c},
   incs |-> {i \in D.incs : i.owner # c}]

\* The server ends session c's transaction by commit.
Committed(D, c) ==
  [messages |->
     [m \in DOMAIN D.messages |->
        LET row == D.messages[m]
            r1 == IF row.locker = c
                    THEN [row EXCEPT !.reflection_count = @ + row.delta,
                                     !.delta = 0, !.locker = 0]
                    ELSE row
        IN IF r1.owner = c THEN [r1 EXCEPT !.owner = 0] ELSE r1],
   reflections |->
     {IF r.owner = c THEN [r EXCEPT !.owner = 0] ELSE r : r \in D.reflections},
   incs |-> {IF i.owner = c THEN [i EXCEPT !.owner = 0] ELSE i : i \in D.incs}]

\* Existing with the voter left out of the WHERE clause.
ExistingAnyVoter(D, c, m, v) ==
  {r \in D.reflections : r.message_id = m /\ Visible(r.owner, c)}

\* SELECT id FROM reflections WHERE message_id = m AND user_ip = v, on c.
Existing(D, c, m, v) ==
  {r \in D.reflections :
     r.message_id = m /\ r.user_ip = v /\ Visible(r.owner, c)}

\* The message row m as session c sees it.
MessageVisible(D, c, m) ==
  m \in DOMAIN D.messages /\ Visible(D.messages[m].owner, c)

\* SELECT reflection_count FROM messages WHERE id = m, on c, then
\* result.rows[0]?.reflection_count || 0.
ReadCount(D, c, m) ==
  IF MessageVisible(D, c, m)
    THEN D.messages[m].reflection_count
         + (IF D.messages[m].locker = c THEN D.messages[m].delta ELSE 0)
    ELSE 0

(* ------------------------------------------------------------------ *)
(* The connection pool                                                *)
(* ------------------------------------------------------------------ *)

\* The pool holds as many clients as it may.
IsFull(P) == \A c \in Conns : P.open[c]

\* The client a new connection becomes.
NewClient(P) ==
  CHOOSE c \in Conns : ~P.open[c] /\ \A d \in Conns : ~P.open[d] => c <= d

\* The pool serves its queue: the first waiting request gets the client
\* released last, or a new client when none is idle and the pool is not full.
Pulse(P) ==
  IF P.pending = <<>> THEN P
  ELSE IF P.idle # <<>> THEN
    [P EXCEPT !.pending = Tail(@),
              !.idle = SubSeq(@, 1, Len(@) - 1),
              !.using[Head(P.pending)] = P.idle[Len(P.idle)]]
  ELSE IF ~IsFull(P) THEN
    [P EXCEPT !.pending = Tail(@),
              !.open[NewClient(P)] = TRUE,
              !.tx[NewClient(P)] = FALSE,
              !.using[Head(P.pending)] = NewClient(P)]
  ELSE P

\* pool.query asks for a client for request s.
Acquire(P, s) == Pulse([P EXCEPT !.pending = Append(@, s)])

\* pool.query gives client c back after the statement of request s: the
\* client returns to the idle list with its session's transaction state, or
\* is destroyed when the statement failed.
Release(P, s, c, txAfter, err) ==
  Pulse(IF err
          THEN [P EXCEPT !.open[c] = FALSE, !.tx[c] = FALSE, !.using[s] = 0]
          ELSE [P EXCEPT !.tx[c] = txAfter, !.idle = Append(@, c),
                         !.using[s] = 0])

(* ------------------------------------------------------------------ *)
(* Handlers                                                           *)
(* ------------------------------------------------------------------ *)

\* Handler positions at which a statement is awaited.
StmtPcs == {"check", "begin", "insert", "update", "commit", "read",
            "rollback", "found_rollback", "share_insert"}

\* No earlier request to speak of.
NoPrev == [ok |-> FALSE, result |-> "none", count |-> 0]

\* A slot that serves no request.  Besides the handler's own state (kind, pc,
\* messageId, userIp, body, text, result, count) a slot records the history of its
\* request: its number (rid), the ledger row it inserted (row), whether its
\* UPDATE changed a row (inc) and the counter it then saw (post), whether a
\* statement of its failed from outside (hit), whether its existence check
\* found a row (found), whether the unique index refused its INSERT (dup),
\* whether its check read another request's row without the increment
\* (partial), whether no other request ran beside it (alone), whether the
\* ledger held no row for its pair (fresh) and the message was committed
\* (existed) when it arrived, the request answered just before it (prev),
\* whether one of its statements other than ROLLBACK was rejected (failed),
\* whether the ledger held a committed row for its pair when it arrived
\* (had), the committed counter of its message when it arrived (before), and
\* whether it arrived with nothing in flight, no uncommitted write in the
\* database, and the counter of its message equal to the number of the
\* message's ledger rows (calm).
Free == [kind |-> "none", pc |-> "idle", messageId |-> 0, userIp |-> 0,
         body |-> <<>>, text |-> <<>>, result |-> "none", count |-> 0,
         rid |-> 0, row |-> 0, inc |-> FALSE, post |-> 0, hit |-> FALSE,
         failed |-> FALSE, had |-> FALSE, before |-> 0, calm |-> FALSE,
         found |-> FALSE, dup |-> FALSE, partial |-> FALSE,
         alone |-> FALSE, fresh |-> FALSE, existed |-> FALSE, prev |-> NoPrev]

NoLast == [rid |-> 0, kind |-> "none", messageId |-> 0, userIp |-> 0,
           result |-> "none", count |-> 0, clean |-> FALSE]

\* What is remembered of an answered request.
Summary(r) ==
  [rid |-> r.rid, kind |-> r.kind, messageId |-> r.messageId,
   userIp |-> r.userIp, result |-> r.result, count |-> r.count,
   clean |-> r.alone /\ r.fresh /\ r.existed /\ ~r.hit]

\* Slot s serves a request that is not answered yet.
InProgress(s) == req[s].pc \in StmtPcs

\* Requests are served by the lowest free slot (slots are interchangeable).
LowestFree(s) ==
  /\ ~InProgress(s)
  /\ \A t \in Slots : t < s => InProgress(t)

\* A request arrives in slot s as r: the requests in progress no longer run
\* alone.
Arrive(s, r) ==
  [t \in Slots |->
     IF t = s THEN r
     ELSE IF InProgress(t) THEN [req[t] EXCEPT !.alone = FALSE]
     ELSE req[t]]

\* String.prototype.trim on a sequence of characters.
RECURSIVE TrimLeft(_)
TrimLeft(t) == IF t # <<>> /\ Head(t) = " " THEN TrimLeft(Tail(t)) ELSE t

RECURSIVE TrimRight(_)
TrimRight(t) ==
  IF t # <<>> /\ t[Len(t)] = " " THEN TrimRight(SubSeq(t, 1, Len(t) - 1)) ELSE t

\* Trim leaving the trailing white space.
TrimLeftOnly(t) == TrimLeft(t)

Trim(t) == TrimRight(TrimLeft(t))

\* !message || message.trim().length === 0
EmptyMessage(body) == body = Absent \/ body = <<>> \/ Len(Trim(body)) = 0

SetData(D) ==
  /\ messages' = D.messages
  /\ reflections' = D.reflections
  /\ incs' = D.incs

\* The statement of request s on client c has run, leaving the tables D and
\* the session's transaction txAfter, or has failed (err); the client is
\* released and the handler runs on to r: its next await, or its response.
Finish(s, c, D, txAfter, err, r) ==
  LET P1 == Release(pool, s, c, txAfter, err)
  IN /\ SetData(IF err THEN RolledBack(D, c) ELSE D)
     /\ pool' = (IF r.pc \in StmtPcs THEN Acquire(P1, s) ELSE P1)
     /\ req' = [req EXCEPT ![s] = r]
     /\ last' = (IF r.pc = "done" THEN Summary(r) ELSE last)

\* No transaction has uncommitted writes.
NothingPending ==
  /\ \A x \in reflections : x.owner = 0
  /\ \A i \in incs : i.owner = 0
  /\ \A m \in DOMAIN messages : messages[m].owner = 0 /\ messages[m].locker = 0

\* First statement of the POST /reflect handler.
FirstPc == IF variant = "check_first" THEN "check" ELSE "begin"

\* POST /reflect/:messageId arrives.
StartReflect(s, m, v) ==
  LET quiet == \A t \in Slots : ~InProgress(t)
      prev == IF /\ quiet /\ last.rid = nreq /\ last.kind = "reflect"
                 /\ last.messageId = m /\ last.userIp = v /\ last.clean
                THEN [ok |-> TRUE, result |-> last.result, count |-> last.count]
                ELSE NoPrev
  IN /\ LowestFree(s)
     /\ nreq < MaxRequests
     /\ nreq' = nreq + 1
     /\ req' = Arrive(s, [Free EXCEPT
                            !.kind = "reflect", !.pc = FirstPc,
                            !.messageId = m, !.userIp = v, !.rid = nreq + 1,
                            !.alone = quiet,
                            !.fresh = \A x \in reflections :
                                        ~(x.message_id = m /\ x.user_ip = v),
                            !.existed = MessageVisible(Data, 0, m),
                            !.had = Existing(Data, 0, m, v) # {},
                            !.before = ReadCount(Data, 0, m),
                            !.calm =
                              /\ quiet /\ NothingPending
                              /\ MessageVisible(Data, 0, m)
                              /\ ReadCount(Data, 0, m) = Cardinality(
                                   {x \in reflections : x.message_id = m}),
                            !.prev = prev])
     /\ pool' = Acquire(pool, s)
     /\ UNCHANGED <<boot, button, variant, messages, reflections, reflSeq, msgSeq, incs,
                    last, nfail, nshare>>

\* AfterFound running on to the UPDATE.
AfterFoundCounts(r) == [r EXCEPT !.pc = "update", !.found = TRUE]

\* The answer to a found ledger row.
AfterFound(r) ==
  IF variant = "check_first"
    THEN [r EXCEPT !.pc = "done", !.result = "already", !.found = TRUE]
    ELSE [r EXCEPT !.pc = "found_rollback", !.found = TRUE]

\* The rows read on session c include one whose writer is still in progress
\* and whose counter increment session c does not see.
ReadsPartial(rows, c, s) ==
  \E x \in rows :
    /\ \E t \in Slots \ {s} : InProgress(t) /\ req[t].rid = x.by
    /\ ~\E i \in incs : i.by = x.by /\ Visible(i.owner, c)

\* The existence check: SELECT id FROM reflections WHERE ...
DoCheck(s) ==
  LET c == pool.using[s]
      r == req[s]
      rows == Existing(Data, c, r.messageId, r.userIp)
      r1 == [r EXCEPT !.partial = ReadsPartial(rows, c, s)]
  IN /\ r.pc = "check" /\ c # 0
     /\ Finish(s, c, Data, pool.tx[c], FALSE,
               IF rows # {} THEN AfterFound(r1)
               ELSE [r1 EXCEPT !.pc = IF variant = "check_first"
                                        THEN "begin" ELSE "insert"])
     /\ UNCHANGED <<boot, button, variant, reflSeq, msgSeq, nreq, nfail, nshare>>

\* BEGIN
DoBegin(s) ==
  LET c == pool.using[s]
      r == req[s]
  IN /\ r.pc = "begin" /\ c # 0
     /\ Finish(s, c, Data, TRUE, FALSE,
               [r EXCEPT !.pc = IF variant = "check_first"
                                  THEN "insert" ELSE "check"])
     /\ UNCHANGED <<boot, button, variant, reflSeq, msgSeq, nreq, nfail, nshare>>

\* UniqueViolation with the UNIQUE constraint missing from the table.
UniqueViolationNever(D, c, m, v) == FALSE

\* The unique (message_id, user_ip) index refuses the row.
UniqueViolation(D, c, m, v) == Existing(D, c, m, v) # {}

\* INSERT INTO reflections (message_id, user_ip) VALUES (m, v)
DoInsert(s) ==
  LET c == pool.using[s]
      r == req[s]
      m == r.messageId
      v == r.userIp
      waits == \E x \in reflections :
                 x.message_id = m /\ x.user_ip = v /\ ~Visible(x.owner, c)
      ok == ~UniqueViolation(Data, c, m, v) /\ MessageVisible(Data, c, m)
      new == [id |-> reflSeq, message_id |-> m, user_ip |-> v,
              owner |-> IF pool.tx[c] THEN c ELSE 0, by |-> r.rid]
  IN /\ r.pc = "insert" /\ c # 0
     /\ UniqueViolation(Data, c, m, v) \/ ~waits
     /\ reflSeq' = reflSeq + 1
     /\ Finish(s, c,
               IF ok THEN [Data EXCEPT !.reflections = @ \cup {new}] ELSE Data,
               pool.tx[c], ~ok,
               IF ok THEN [r EXCEPT !.pc = "update", !.row = reflSeq]
                     ELSE [r EXCEPT !.pc = "rollback", !.failed = TRUE,
                                    !.dup = UniqueViolation(Data, c, m, v)])
     /\ UNCHANGED <<boot, button, variant, msgSeq, nreq, nfail, nshare>>

\* Incremented adding 2.
IncrementedTwice(n) == n + 2

\* The counter the UPDATE writes.
Incremented(n) == n + 1

\* UPDATE messages SET reflection_count = reflection_count + 1 WHERE id = m
DoUpdate(s) ==
  LET c == pool.using[s]
      r == req[s]
      m == r.messageId
      vis == MessageVisible(Data, c, m)
      inTx == pool.tx[c]
      row == messages[m]
      new == IF inTx
               THEN [row EXCEPT !.delta = Incremented(row.reflection_count + @)
                                          - row.reflection_count,
                                !.locker = c]
               ELSE [row EXCEPT !.reflection_count = Incremented(@)]
      inc == [by |-> r.rid, message_id |-> m, owner |-> IF inTx THEN c ELSE 0]
  IN /\ r.pc = "update" /\ c # 0
     /\ vis => messages[m].locker \in {0, c}
     /\ Finish(s, c,
               IF vis THEN [Data EXCEPT !.messages[m] = new,
                                        !.incs = @ \cup {inc}]
                      ELSE Data,
               inTx, FALSE,
               [r EXCEPT !.pc = "commit", !.inc = vis,
                         !.post = IF vis
                                    THEN Incremented(ReadCount(Data, c, m))
                                    ELSE 0])
     /\ UNCHANGED <<boot, button, variant, reflSeq, msgSeq, nreq, nfail, nshare>>

\* COMMIT
DoCommit(s) ==
  LET c == pool.using[s]
      r == req[s]
  IN /\ r.pc = "commit" /\ c # 0
     /\ Finish(s, c, IF pool.tx[c] THEN Committed(Data, c) ELSE Data,
               FALSE, FALSE, [r EXCEPT !.pc = "read"])
     /\ UNCHANGED <<boot, button, variant, reflSeq, msgSeq, nreq, nfail, nshare>>

\* SELECT reflection_count FROM messages WHERE id = m, and the response.
DoRead(s) ==
  LET c == pool.using[s]
      r == req[s]
  IN /\ r.pc = "read" /\ c # 0
     /\ Finish(s, c, Data, pool.tx[c], FALSE,
               [r EXCEPT !.pc = "done", !.result = "registered",
                         !.count = ReadCount(Data, c, r.messageId)])
     /\ UNCHANGED <<boot, button, variant, reflSeq, msgSeq, nreq, nfail, nshare>>

\* The catch block: ROLLBACK, then HTTP 500.
DoRollback(s) ==
  LET c == pool.using[s]
      r == req[s]
  IN /\ r.pc = "rollback" /\ c # 0
     /\ Finish(s, c, IF pool.tx[c] THEN RolledBack(Data, c) ELSE Data,
               FALSE, FALSE, [r EXCEPT !.pc = "done", !.result = "error500"])
     /\ UNCHANGED <<boot, button, variant, reflSeq, msgSeq, nreq, nfail, nshare>>

\* begin_first variants: ROLLBACK after a found row, then 'Already reflected'.
DoFoundRollback(s) ==
  LET c == pool.using[s]
      r == req[s]
  IN /\ r.pc = "found_rollback" /\ c # 0
     /\ Finish(s, c, IF pool.tx[c] THEN RolledBack(Data, c) ELSE Data,
               FALSE, FALSE, [r EXCEPT !.pc = "done", !.result = "already"])
     /\ UNCHANGED <<boot, button, variant, reflSeq, msgSeq, nreq, nfail, nshare>>

\* What becomes of a request whose async handler rejects: Express 4 leaves
\* it unanswered, Express 5 hands the error to its default error handler,
\* which answers HTTP 500 without the handler's JSON body.
Unhandled == {"no_response", "default500"}

\* The statements of the try block of POST /reflect other than ROLLBACK.
TryPcs == {"check", "begin", "insert", "update", "commit", "read"}

\* Where a rejected pool.query leaves the handler; u is what the framework
\* does when the rejection escapes the handler.
AfterFailure(r, u) ==
  IF r.kind = "share"
    THEN [r EXCEPT !.pc = "done", !.result = "redirect_db", !.hit = TRUE]
  ELSE IF r.pc # "rollback"
    THEN [r EXCEPT !.pc = "rollback", !.hit = TRUE,
                   !.failed = @ \/ r.pc \in TryPcs]
  ELSE IF variant = "check_first"
    THEN [r EXCEPT !.pc = "done", !.result = "error500", !.hit = TRUE]
    ELSE [r EXCEPT !.pc = "done", !.result = u, !.hit = TRUE]

\* The statement in flight for request s fails from outside the application.
StmtFails(s) ==
  LET c == pool.using[s]
  IN /\ req[s].pc \in StmtPcs /\ c # 0
     /\ nfail < MaxFailures
     /\ nfail' = nfail + 1
     /\ \E u \in Unhandled :
          Finish(s, c, Data, FALSE, TRUE, AfterFailure(req[s], u))
     /\ UNCHANGED <<boot, button, variant, reflSeq, msgSeq, nreq, nshare>>

\* POST /share arrives.
StartShare(s, body) ==
  LET r == [Free EXCEPT !.kind = "share", !.rid = nreq + 1, !.body = body]
      rejected == [r EXCEPT !.pc = "done", !.result = "redirect_empty"]
  IN /\ LowestFree(s)
     /\ nreq < MaxRequests
     /\ nreq' = nreq + 1
     /\ IF EmptyMessage(body)
          THEN /\ req' = Arrive(s, rejected)
               /\ last' = Summary(rejected)
               /\ UNCHANGED <<pool, nshare>>
          ELSE /\ nshare < MaxShares
               /\ nshare' = nshare + 1
               /\ req' = Arrive(s, [r EXCEPT !.pc = "share_insert",
                                             !.text = Trim(body)])
               /\ pool' = Acquire(pool, s)
               /\ last' = last
     /\ UNCHANGED <<boot, button, variant, messages, reflections, reflSeq, msgSeq, incs,
                    nfail>>

\* INSERT INTO messages (text, category, author) VALUES (...)
DoShareInsert(s) ==
  LET c == pool.using[s]
      r == req[s]
      new == [text |-> r.text, category |-> DefaultCategory,
              author |-> DefaultAuthor, reflection_count |-> 0,
              delta |-> 0, locker |-> 0,
              owner |-> IF pool.tx[c] THEN c ELSE 0, by |-> r.rid]
  IN /\ r.pc = "share_insert" /\ c # 0
     /\ msgSeq' = msgSeq + 1
     /\ Finish(s, c,
               [Data EXCEPT !.messages =
                  [m \in DOMAIN messages \cup {msgSeq} |->
                     IF m = msgSeq THEN new ELSE messages[m]]],
               pool.tx[c], FALSE,
               [r EXCEPT !.pc = "done", !.result = "redirect_ok"])
     /\ UNCHANGED <<boot, button, variant, reflSeq, nreq, nfail, nshare>>

\* An idle client reaches the pool's idle timeout and is closed.
IdleTimeout(c) ==
  /\ \E i \in 1..Len(pool.idle) : pool.idle[i] = c
  /\ pool' = [pool EXCEPT !.open[c] = FALSE, !.tx[c] = FALSE,
                          !.idle = SelectSeq(@, LAMBDA x : x # c)]
  /\ SetData(RolledBack(Data, c))
  /\ UNCHANGED <<boot, button, variant, reflSeq, msgSeq, req, last, nreq, nfail, nshare>>

\* Cascade with ON DELETE CASCADE missing from the foreign key.
CascadeNone(R, m) == R

\* message_id REFERENCES messages(id) ON DELETE CASCADE: the ledger rows R
\* left when message m is deleted.
Cascade(R, m) == {r \in R : r.message_id # m}

\* The message ids a DELETE is tried on: those a request may name.
Deletable == PathIds

\* DELETE FROM messages WHERE id = m, issued on the database from outside the
\* application (no handler deletes a message).  The statement waits while
\* another transaction holds the row: an uncommitted increment, or an
\* uncommitted ledger row referencing it.
DeleteMessage(m) ==
  /\ m \in DOMAIN messages
  /\ messages[m].owner = 0 /\ messages[m].locker = 0
  /\ \A r \in reflections : r.message_id = m => r.owner = 0
  /\ messages' = [x \in DOMAIN messages \ {m} |-> messages[x]]
  /\ reflections' = Cascade(reflections, m)
  /\ UNCHANGED <<boot, button, variant, reflSeq, msgSeq, pool, req, incs, last, nreq, nfail,
                 nshare>>

(* ------------------------------------------------------------------ *)
(* The page script: the click handler of a reflect button             *)
(* ------------------------------------------------------------------ *)

\* How the fetch of a click ends: a JSON body with success true, with
\* 'Already reflected', or with an error (HTTP 500), a body that is not JSON,
\* or no response at all (network failure).
Outcomes == {"success", "already", "error_json", "not_json", "network"}

\* A button nobody has clicked: the 'loading' class (loading), where the
\* click handler that passed the guard stands (pc), the POST requests sent
\* and not yet completed (inflight), the clicks that sent a request (sent)
\* and those that did not (ignored), and how the last request ended (ended).
Released == [loading |-> FALSE, pc |-> "idle", inflight |-> 0,
             sent |-> 0, ignored |-> 0, ended |-> "none"]

\* Blocked letting every click through.
BlockedNever(B) == FALSE

\* if (this.classList.contains('loading')) return;
Blocked(B) == B.loading

\* try ... finally: this.classList.remove('loading')
Finally(B, o) ==
  [B EXCEPT !.loading = FALSE, !.pc = "idle", !.inflight = @ - 1, !.ended = o]

\* A click on button b: nothing when the button is loading, else the class
\* is added and the POST is sent.
Click(b) ==
  /\ button[b].sent + button[b].ignored < MaxClicks
  /\ button' = [button EXCEPT ![b] =
                  IF Blocked(@)
                    THEN [@ EXCEPT !.ignored = @ + 1]
                    ELSE [@ EXCEPT !.loading = TRUE, !.pc = "fetch",
                                   !.inflight = @ + 1, !.sent = @ + 1]]
  /\ UNCHANGED <<variant, messages, reflections, reflSeq, msgSeq, pool, req,
                 incs, last, nreq, nfail, nshare, boot>>

\* await fetch(...) settles: rejected on a network failure (catch, finally),
\* else the handler goes on to await response.json().
FetchSettles(b, o) ==
  /\ button[b].pc = "fetch"
  /\ button' = [button EXCEPT ![b] =
                  IF o = "network" THEN Finally(@, o)
                  ELSE [@ EXCEPT !.pc = "json", !.ended = o]]
  /\ UNCHANGED <<variant, messages, reflections, reflSeq, msgSeq, pool, req,
                 incs, last, nreq, nfail, nshare, boot>>

\* await response.json() settles: the feedback of the branch taken, or the
\* catch block when the body is not JSON, and then the finally block.
JsonSettles(b) ==
  /\ button[b].pc = "json"
  /\ button' = [button EXCEPT ![b] = Finally(@, @.ended)]
  /\ UNCHANGED <<variant, messages, reflections, reflSeq, msgSeq, pool, req,
                 incs, last, nreq, nfail, nshare, boot>>

(* ------------------------------------------------------------------ *)
(* Start-up: initializeDatabase and seedInitialData                   *)
(* ------------------------------------------------------------------ *)

\* The row of seed message k.
SeedRow(k) ==
  [text |-> SeedTexts[k], category |-> DefaultCategory,
   author |-> DefaultAuthor, reflection_count |-> SeedCounts[k],
   delta |-> 0, locker |-> 0, owner |-> 0, by |-> 0]

\* An instance that is not running: where initializeDatabase stands (pc),
\* the seed message to insert next (k), and the starts so far (starts).
Down == [pc |-> "off", k |-> 1, starts |-> 0]

\* An instance whose initializeDatabase has returned.
Up == [pc |-> "up", k |-> 1, starts |-> 1]

\* parseInt(result.rows[0]?.count || 0) === 0
SeedEmpty(n) == n = 0

\* Instance i starts (again): initializeDatabase is called; CREATE TABLE IF
\* NOT EXISTS leaves existing tables alone.
StartInstance(i) ==
  /\ boot[i].pc \in {"off", "up"}
  /\ boot[i].starts < MaxStarts
  /\ boot' = [boot EXCEPT ![i] = [@ EXCEPT !.pc = "count", !.k = 1,
                                           !.starts = @ + 1]]
  /\ UNCHANGED <<variant, messages, reflections, reflSeq, msgSeq, pool, req,
                 incs, last, nreq, nfail, nshare, button>>

\* SELECT COUNT(*) FROM messages, and the decision to seed.
CountMessages(i) ==
  /\ boot[i].pc = "count"
  /\ boot' = [boot EXCEPT ![i].pc =
                IF SeedEmpty(Cardinality(DOMAIN messages)) THEN "seed"
                                                           ELSE "up"]
  /\ UNCHANGED <<variant, messages, reflections, reflSeq, msgSeq, pool, req,
                 incs, last, nreq, nfail, nshare, button>>

\* One turn of the loop of seedInitialData: INSERT INTO messages, committed
\* on its own.
SeedInsert(i) ==
  LET k == boot[i].k
  IN /\ boot[i].pc = "seed"
     /\ messages' = [m \in DOMAIN messages \cup {msgSeq} |->
                       IF m = msgSeq THEN SeedRow(k) ELSE messages[m]]
     /\ msgSeq' = msgSeq + 1
     /\ boot' = [boot EXCEPT ![i] =
                   IF k = Len(SeedCounts) THEN [@ EXCEPT !.pc = "up", !.k = 1]
                                          ELSE [@ EXCEPT !.k = k + 1]]
     /\ UNCHANGED <<variant, reflections, reflSeq, pool, req, incs, last,
                    nreq, nfail, nshare, button>>

\* A statement of initializeDatabase is rejected: the catch block logs the
\* error and the instance runs on.
BootFails(i) ==
  /\ boot[i].pc \in {"count", "seed"}
  /\ nfail < MaxFailures
  /\ nfail' = nfail + 1
  /\ boot' = [boot EXCEPT ![i] = [@ EXCEPT !.pc = "up", !.k = 1]]
  /\ UNCHANGED <<variant, messages, reflections, reflSeq, msgSeq, pool, req,
                 incs, last, nreq, nshare, button>>

\* After initializeDatabase on an empty database: the seed rows, no ledger
\* rows, and a pool whose start-up clients have idled out.
Init ==
  /\ variant \in Variants
  /\ messages = [m \in 1..Len(SeedCounts) |-> SeedRow(m)]
  /\ reflections = {}
  /\ reflSeq = 1
  /\ msgSeq = Len(SeedCounts) + 1
  /\ pool = [open |-> [c \in Conns |-> FALSE], tx |-> [c \in Conns |-> FALSE],
             idle |-> <<>>, pending |-> <<>>, using |-> [s \in Slots |-> 0]]
  /\ req = [s \in Slots |-> Free]
  /\ incs = {}
  /\ last = NoLast
  /\ nreq = 0
  /\ nfail = 0
  /\ nshare = 0
  /\ button = [b \in Buttons |-> Released]
  /\ boot = [i \in Instances |-> Up]

Next ==
  \/ \E s \in Slots, m \in PathIds, v \in Voters : StartReflect(s, m, v)
  \/ \E s \in Slots, b \in Bodies : StartShare(s, b)
  \/ \E s \in Slots : DoCheck(s)
  \/ \E s \in Slots : DoBegin(s)
  \/ \E s \in Slots : DoInsert(s)
  \/ \E s \in Slots : DoUpdate(s)
  \/ \E s \in Slots : DoCommit(s)
  \/ \E s \in Slots : DoRead(s)
  \/ \E s \in Slots : DoRollback(s)
  \/ \E s \in Slots : DoFoundRollback(s)
  \/ \E s \in Slots : DoShareInsert(s)
  \/ \E s \in Slots : StmtFails(s)
  \/ \E c \in Conns : IdleTimeout(c)

Spec == Init /\ [][Next]_vars

\* The application together with message rows being deleted from outside.
NextAdmin ==
  \/ Next
  \/ \E m \in Deletable : DeleteMessage(m)

SpecAdmin == Init /\ [][NextAdmin]_vars

\* The page in the browser: clicks, and requests completing.
NextPage ==
  \/ \E b \in Buttons : Click(b)
  \/ \E b \in Buttons, o \in Outcomes : FetchSettles(b, o)
  \/ \E b \in Buttons : JsonSettles(b)

\* Every request sent completes: the browser gets a response or gives up.
SpecPage ==
  /\ Init /\ [][NextPage]_vars
  /\ \A b \in Buttons :
       /\ WF_vars(\E o \in Outcomes : FetchSettles(b, o))
       /\ WF_vars(JsonSettles(b))

\* An empty database and no instance running.
InitBoot ==
  /\ variant \in Variants
  /\ messages = <<>>
  /\ reflections = {}
  /\ reflSeq = 1
  /\ msgSeq = 1
  /\ pool = [open |-> [c \in Conns |-> FALSE], tx |-> [c \in Conns |-> FALSE],
             idle |-> <<>>, pending |-> <<>>, using |-> [s \in Slots |-> 0]]
  /\ req = [s \in Slots |-> Free]
  /\ incs = {}
  /\ last = NoLast
  /\ nreq = 0
  /\ nfail = 0
  /\ nshare = 0
  /\ button = [b \in Buttons |-> Released]
  /\ boot = [i \in Instances |-> Down]

\* Instances starting on one database.
NextBoot ==
  \/ \E i \in Instances : StartInstance(i)
  \/ \E i \in Instances : CountMessages(i)
  \/ \E i \in Instances : SeedInsert(i)
  \/ \E i \in Instances : BootFails(i)

SpecBoot == InitBoot /\ [][NextBoot]_vars

\* The statement awaited by the handler of slot s runs.
Step(s) ==
  \/ DoCheck(s) \/ DoBegin(s) \/ DoInsert(s) \/ DoUpdate(s) \/ DoCommit(s)
  \/ DoRead(s) \/ DoRollback(s) \/ DoFoundRollback(s) \/ DoShareInsert(s)

\* The database runs every statement it is sent and can run: a handler whose
\* statement holds a client and does not wait for a lock moves on.
SpecLive == Spec /\ \A s \in Slots : WF_vars(Step(s))

(* ------------------------------------------------------------------ *)
(* Properties                                                         *)
(* ------------------------------------------------------------------ *)

\* The committed rows of the ledger.
CommittedLedger == {r \in reflections : r.owner = 0}

\* The committed ledger rows of message m.
LedgerOf(m) == {r \in CommittedLedger : r.message_id = m}

\* The committed ledger rows of the pair (m, v).
LedgerOfPair(m, v) == {r \in LedgerOf(m) : r.user_ip = v}

\* The committed messages.
CommittedMessages == {m \in DOMAIN messages : messages[m].owner = 0}

\* The committed counters.
Counters == [m \in CommittedMessages |-> messages[m].reflection_count]

\* No POST /reflect request is in flight.
Quiescent == \A s \in Slots : ~(InProgress(s) /\ req[s].kind = "reflect")

\* Slot s holds an answered POST /reflect request.
Answered(s) == req[s].kind = "reflect" /\ req[s].pc = "done"

\* The request of slot s has a committed ledger row / counter increment.
RowCommitted(s) == \E r \in CommittedLedger : r.by = req[s].rid
IncCommitted(s) == \E i \in incs : i.by = req[s].rid /\ i.owner = 0

\* The request of slot s has a ledger row or an increment not yet decided.
Undecided(s) ==
  \/ \E r \in reflections : r.by = req[s].rid /\ r.owner # 0
  \/ \E i \in incs : i.by = req[s].rid /\ i.owner # 0

\* C1. Counter invariant: in every quiescent state every message's
\* reflection_count equals the number of ledger rows of that message.
C1_CounterInvariant ==
  Quiescent =>
    \A m \in CommittedMessages :
      messages[m].reflection_count = Cardinality(LedgerOf(m))

\* C2. Ledger uniqueness: the reflections table never holds two rows,
\* committed or not, with the same (message_id, user_ip).
C2_LedgerUnique ==
  \A x, y \in reflections :
    (x.message_id = y.message_id /\ x.user_ip = y.user_ip) => x = y

\* C2 witness: the unique index has refused an INSERT while the ledger holds
\* a row.
C2_Witness == \E s \in Slots : req[s].dup /\ reflections # {}

\* C3. Two calls for the same pair on an existing message, the only requests
\* so far and with no failure from outside, end with exactly one ledger row
\* for the pair and the counter raised by exactly 1.
C3_ExactlyOnce ==
  \A s, t \in Slots :
    ( /\ s # t /\ Answered(s) /\ Answered(t)
      /\ nreq = 2 /\ nfail = 0
      /\ req[s].messageId = req[t].messageId
      /\ req[s].userIp = req[t].userIp
      /\ req[s].messageId \in 1..Len(SeedCounts) )
    => /\ Cardinality(LedgerOfPair(req[s].messageId, req[s].userIp)) = 1
       /\ messages[req[s].messageId].reflection_count
            = SeedCounts[req[s].messageId] + 1

\* C4. A call whose check found no row and whose INSERT the unique index
\* then refused answers 'Already reflected'.
C4_LostRaceIsAlready ==
  \A s \in Slots : (Answered(s) /\ req[s].dup) => req[s].result = "already"

\* Slot s holds the second of two sequential calls for one pair: the first
\* arrived with nothing in flight, the message committed and no ledger row
\* for the pair, the second arrived right after the first was answered, no
\* other request ran beside either or arrived since, and no statement of
\* either failed from outside.
SecondOfTwo(s) ==
  /\ Answered(s) /\ req[s].prev.ok
  /\ req[s].alone /\ ~req[s].hit
  /\ nreq = req[s].rid

\* C5. Two sequential calls for an existing message and a voter with no
\* ledger row, with no storage failure, answer Registered(n) and then
\* 'Already reflected', and the message's reflection_count is n afterwards.
C5_TwiceSequential ==
  \A s \in Slots :
    SecondOfTwo(s) =>
      /\ req[s].prev.result = "registered"
      /\ req[s].result = "already"
      /\ messages[req[s].messageId].reflection_count = req[s].prev.count

\* C5 witness: a second sequential call has been answered 'Already reflected'.
C5_Witness == \E s \in Slots : SecondOfTwo(s) /\ req[s].result = "already"

\* C6. All or nothing: an answered call whose writes are decided has
\* committed both its ledger row and its increment, or neither (stated here
\* for the behaviours in which no statement fails from outside).
C6_AllOrNothing ==
  \A s \in Slots :
    (nfail = 0 /\ Answered(s) /\ ~Undecided(s))
      => (RowCommitted(s) <=> IncCommitted(s))

\* C7. No existence check reads the ledger row of a call in progress without
\* that call's increment.
C7_NoPartialRead == \A s \in Slots : ~req[s].partial

\* The handler of slot s takes a step after its existence check found a row
\* (the check itself included).
FoundStep(s) ==
  /\ req'[s].found
  /\ req'[s].rid = req[s].rid
  /\ req'[s].pc # req[s].pc

C9_PostIncrement ==
  \A s \in Slots :
    ( /\ nfail = 0 /\ Answered(s) /\ req[s].result = "registered"
      /\ RowCommitted(s) /\ IncCommitted(s) )
    => req[s].count = req[s].post

\* C10. A call naming a message id that no message has is answered NotFound,
\* an answer other than HTTP 500, and has written no ledger row and no
\* increment (stated here for the behaviours in which no statement fails
\* from outside).
C10_NotFound ==
  \A s \in Slots :
    (nfail = 0 /\ Answered(s) /\ req[s].messageId = 0)
      => /\ req[s].result = "not_found"
         /\ ~\E r \in reflections : r.by = req[s].rid
         /\ ~\E i \in incs : i.by = req[s].rid

\* C11. A call one of whose statements (existence check, BEGIN, INSERT,
\* UPDATE, COMMIT, final count read) was rejected by the database is answered
\* HTTP 500 with success false.
C11_FailureIs500 ==
  \A s \in Slots : (Answered(s) /\ req[s].failed) => req[s].result = "error500"

\* C12. A committed ledger row stays in the ledger for good, and a call for
\* its pair that arrives after the commit is never answered with success: it
\* is answered 'Already reflected' unless one of its statements fails from
\* outside.
C12_Terminal ==
  /\ [][CommittedLedger \subseteq CommittedLedger']_vars
  /\ [](\A s \in Slots :
          (Answered(s) /\ req[s].had)
            => /\ req[s].result # "registered"
               /\ ~req[s].hit => req[s].result = "already")

\* C12 witness: a call that arrived after the row of its pair was committed
\* has been answered, the row still in the ledger.
C12_Witness ==
  \E s \in Slots :
    /\ Answered(s) /\ req[s].had /\ req[s].result = "already"
    /\ LedgerOfPair(req[s].messageId, req[s].userIp) # {}

\* Slot s holds a sequential call: it arrived calm, no request ran beside it
\* or arrived since, and no statement of it failed from outside.
Sequential(s) ==
  /\ Answered(s) /\ req[s].calm /\ req[s].alone /\ ~req[s].hit
  /\ nreq = req[s].rid

\* C13. A sequential call on a message whose counter n equals the number of
\* its ledger rows (as for a message starting at 0 with no rows, and after
\* every such call) answers Registered(n + 1) for a voter without a row,
\* leaving counter and rows at n + 1, and 'Already reflected' for a voter
\* with a row, leaving the counter at n: k distinct voters in a row get
\* Registered(1), ..., Registered(k).
C13_SequentialVoters ==
  \A s \in Slots :
    Sequential(s) =>
      LET m == req[s].messageId
          n == req[s].before
      IN IF req[s].had
           THEN /\ req[s].result = "already"
                /\ messages[m].reflection_count = n
                /\ Cardinality(LedgerOf(m)) = n
           ELSE /\ req[s].result = "registered"
                /\ req[s].count = n + 1
                /\ messages[m].reflection_count = n + 1
                /\ Cardinality(LedgerOf(m)) = n + 1

\* C13 witness: the second of two distinct voters registering one after the
\* other on a submitted message has been answered Registered(2).
C13_Witness ==
  \E s \in Slots :
    /\ Sequential(s) /\ req[s].result = "registered" /\ req[s].count = 2
    /\ req[s].messageId = Len(SeedCounts) + 1

\* C14. No orphan reflections: every ledger row, committed or not, references
\* a message row that exists, also after message rows are deleted.
C14_NoOrphans == \A r \in reflections : r.message_id \in DOMAIN messages

\* C14 witness: a message that a sequential call was registered on has been
\* deleted.
C14_Witness ==
  \E s \in Slots :
    /\ Answered(s) /\ req[s].calm /\ req[s].alone /\ ~req[s].hit
    /\ req[s].result = "registered"
    /\ req[s].messageId \notin DOMAIN messages

\* The messages stored by the POST /share request of slot s.
StoredBy(s) == {m \in DOMAIN messages : messages[m].by = req[s].rid}

\* C15. Every message stored through POST /share has a non-empty text with
\* no white space at either end, equal to the trimmed submitted message; a
\* submission whose message is absent, empty or white space only is answered
\* with the redirect to /share?error=empty and stores no message.
C15_ShareText ==
  /\ \A m \in DOMAIN messages :
       messages[m].by # 0 =>
         LET text == messages[m].text
         IN text # <<>> /\ Head(text) # " " /\ text[Len(text)] # " "
  /\ \A s \in Slots :
       req[s].kind = "share" =>
         IF EmptyMessage(req[s].body)
           THEN /\ req[s].pc = "done" /\ req[s].result = "redirect_empty"
                /\ StoredBy(s) = {}
           ELSE \A m \in StoredBy(s) : messages[m].text = Trim(req[s].body)

\* C15 witness: a message submitted with white space around it has been
\* stored without it, and a white-space-only submission has been rejected.
C15_Witness ==
  \E s, t \in Slots :
    /\ req[s].kind = "share" /\ req[s].body = <<" ", "a", " ">>
    /\ \E m \in StoredBy(s) : messages[m].text = <<"a">>
    /\ req[t].kind = "share" /\ req[t].body = <<" ">>
    /\ req[t].result = "redirect_empty"

\* C16. Message lifecycle: in every step of the application a committed
\* message stays in the table with its id, text, category and author as they
\* were, and its reflection_count, never negative, stays or grows by 1.
C16_Lifecycle ==
  /\ [](\A m \in CommittedMessages : messages[m].reflection_count \in Nat)
  /\ [][\A m \in CommittedMessages :
          /\ m \in CommittedMessages'
          /\ messages'[m].text = messages[m].text
          /\ messages'[m].category = messages[m].category
          /\ messages'[m].author = messages[m].author
          /\ messages'[m].reflection_count
               \in {messages[m].reflection_count,
                    messages[m].reflection_count + 1}]_vars

\* C17. Independence: of two overlapping calls for different (message,
\* voter) pairs, the only requests so far, one that is answered with success
\* has its ledger row and its increment committed once both are answered
\* (stated here for the behaviours in which no statement fails from outside).
C17_Independent ==
  \A s, t \in Slots :
    ( /\ s # t /\ Answered(s) /\ Answered(t)
      /\ nreq = 2 /\ nfail = 0
      /\ <<req[s].messageId, req[s].userIp>>
           # <<req[t].messageId, req[t].userIp>>
      /\ req[s].result = "registered" )
    => RowCommitted(s) /\ IncCommitted(s)

\* A statement of the POST /reflect call of slot s runs in this step.
ReflectStep(s) ==
  /\ req[s].kind = "reflect" /\ InProgress(s)
  /\ req'[s].rid = req[s].rid
  /\ req'[s].pc # req[s].pc

\* The ledger rows, committed or not, of pairs other than (m, v).
OtherRows(R, m, v) ==
  {<<r.id, r.message_id, r.user_ip>> :
     r \in {x \in R : ~(x.message_id = m /\ x.user_ip = v)}}

\* C18. Frame: a statement of a call for message M and voter V leaves every
\* ledger row of another pair in the table and the reflection_count of every
\* other message as it was (stated here for the behaviours in which no
\* statement fails from outside).
C18_Frame ==
  [][\A s \in Slots :
       (ReflectStep(s) /\ nfail' = 0) =>
         LET M == req[s].messageId
             V == req[s].userIp
         IN /\ OtherRows(reflections', M, V) = OtherRows(reflections, M, V)
            /\ \A m \in (DOMAIN messages \cap DOMAIN messages') \ {M} :
                 messages'[m].reflection_count + messages'[m].delta
                   = messages[m].reflection_count + messages[m].delta]_vars

\* The HTTP responses to POST /reflect: the handler's three answers and the
\* framework's own HTTP 500.
Responses == {"registered", "already", "error500", "default500"}

\* C19. Every POST /reflect request is eventually answered with success,
\* 'Already reflected' or HTTP 500, also when a statement and then the
\* ROLLBACK of the error handler fail.
C19_Responds ==
  \A s \in Slots : \A k \in 1..MaxRequests :
    (req[s].kind = "reflect" /\ req[s].rid = k /\ InProgress(s))
      ~> (req[s].rid = k /\ req[s].pc = "done"
          /\ req[s].result \in Responses)

\* C20. Click guard: a button has at most one POST /reflect in flight, a
\* click on a loading button sends nothing, a button is loading only while
\* its request is in flight, and a loading button is eventually released
\* however its request ends.
C20_ClickGuard ==
  /\ [](\A b \in Buttons :
          /\ button[b].inflight <= 1
          /\ button[b].loading <=> button[b].inflight = 1)
  /\ [][\A b \in Buttons :
          button[b].loading => /\ button'[b].sent = button[b].sent
                               /\ button'[b].inflight <= button[b].inflight]_vars
  /\ \A b \in Buttons : button[b].loading ~> ~button[b].loading

\* C20 witness: a button that ignored a click while loading has been released
\* after a network failure and has sent a second request.
C20_Witness ==
  \E b \in Buttons :
    /\ button[b].ignored > 0 /\ button[b].ended = "network"
    /\ button[b].sent = 2 /\ button[b].loading

\* The rows of the messages table holding seed message k.
Copies(k) == {m \in DOMAIN messages : messages[m].text = SeedTexts[k]}

\* C21. Seeding happens at most once: whatever instances start, one after
\* the other or at the same time, each seed message is in the messages table
\* at most once.
C21_SeedOnce == \A k \in 1..Len(SeedCounts) : Cardinality(Copies(k)) <= 1

====
